---------------------------- MODULE Spec2Model ----------------------------
(***************************************************************************)
(* Model of the Groq provider adapter, libs/agno/agno/models/groq/groq.py. *)
(*                                                                         *)
(* Python values are represented as follows:                               *)
(*   - None is the string "None"; text is a TLA+ string, except message    *)
(*     content, which is a sequence of text pieces (so that a suffix can   *)
(*     be recognised);                                                     *)
(*   - a dict is a function from its keys; the empty dict is the empty     *)
(*     function;                                                           *)
(*   - a list of dicts is a sequence of references into a heap of dicts,   *)
(*     because the code mutates the dicts through the list.                *)
(***************************************************************************)
EXTENDS Integers, Sequences, FiniteSets, TLC

None == "None"

\* Python truthiness of an Optional[str]: None and "" are falsy.
Truthy(s) == s # None /\ s # ""

\* Python `s or ""` for an Optional[str].
OrEmpty(s) == IF Truthy(s) THEN s ELSE ""

(***************************************************************************)
(* Groq.parse_tool_calls                                                   *)
(***************************************************************************)

\* Largest fragment index drawn, and number of fragments in one argument list.
MaxIndex == 1
MaxFrags == 3

\* ChoiceDeltaToolCall.function: absent, or a name and an arguments text,
\* each Optional.
NoFunction == [present |-> FALSE, name |-> None, arguments |-> None]

FunctionDeltas ==
    { NoFunction,
      [present |-> TRUE, name |-> "get_", arguments |-> "{"],
      [present |-> TRUE, name |-> "weather", arguments |-> None],
      [present |-> TRUE, name |-> "", arguments |-> "}"] }

\* (id, type) pairs a fragment may carry.
IdTypes == { <<None, None>>, <<"call_1", "function">>, <<"call_2", None>> }

\* The ChoiceDeltaToolCall values the fragment list is drawn from.
ChoiceDeltaToolCall ==
    { [index |-> i, id |-> it[1], type |-> it[2], function |-> fn] :
        i \in 0..MaxIndex, it \in IdTypes, fn \in FunctionDeltas }

EmptyDict == [k \in {} |-> None]

\* Python `[x] * n`: a list of n references to the one object x.
ListRepeat(x, n) == [k \in 1..n |-> x]

\* `tool_calls: List[Dict] = []` with no dict allocated yet.
EmptyToolCalls == [tool_calls |-> <<>>, heap |-> <<>>]

\* Lines 390-391: grow the list when the fragment's index is past its end.
\* The list literal [{}] allocates one dict; the repetition copies the
\* reference to it.
ExtendToolCalls(st, _index) ==
    IF Len(st.tool_calls) <= _index
    THEN [tool_calls |-> st.tool_calls
                           \o ListRepeat(Len(st.heap) + 1, _index - Len(st.tool_calls) + 1),
          heap |-> Append(st.heap, EmptyDict)]
    ELSE st

\* Lines 394-399: first fragment seen by the dict.
InitEntry(_tool_call_id, _tool_call_type, _function_name, _function_arguments) ==
    [id |-> _tool_call_id,
     type |-> _tool_call_type,
     function |-> [name |-> OrEmpty(_function_name),
                   arguments |-> OrEmpty(_function_arguments)]]

\* A merge that overwrites the texts instead of appending to them.
MergeEntryOverwrite(entry, _tool_call_id, _tool_call_type, _function_name, _function_arguments) ==
    [id |-> IF Truthy(_tool_call_id) THEN _tool_call_id ELSE entry.id,
     type |-> IF Truthy(_tool_call_type) THEN _tool_call_type ELSE entry.type,
     function |->
        [name |-> IF Truthy(_function_name)
                  THEN _function_name ELSE entry.function.name,
         arguments |-> IF Truthy(_function_arguments)
                       THEN _function_arguments
                       ELSE entry.function.arguments]]

\* A merge that keeps the first id and type the dict was given.
MergeEntryKeepFirst(entry, _tool_call_id, _tool_call_type, _function_name, _function_arguments) ==
    [id |-> IF Truthy(entry.id) THEN entry.id
            ELSE IF Truthy(_tool_call_id) THEN _tool_call_id ELSE entry.id,
     type |-> IF Truthy(entry.type) THEN entry.type
              ELSE IF Truthy(_tool_call_type) THEN _tool_call_type ELSE entry.type,
     function |->
        [name |-> IF Truthy(_function_name)
                  THEN entry.function.name \o _function_name
                  ELSE entry.function.name,
         arguments |-> IF Truthy(_function_arguments)
                       THEN entry.function.arguments \o _function_arguments
                       ELSE entry.function.arguments]]

\* Lines 401-408: a later fragment for a dict that already has content.
MergeEntry(entry, _tool_call_id, _tool_call_type, _function_name, _function_arguments) ==
    [id |-> IF Truthy(_tool_call_id) THEN _tool_call_id ELSE entry.id,
     type |-> IF Truthy(_tool_call_type) THEN _tool_call_type ELSE entry.type,
     function |->
        [name |-> IF Truthy(_function_name)
                  THEN entry.function.name \o _function_name
                  ELSE entry.function.name,
         arguments |-> IF Truthy(_function_arguments)
                       THEN entry.function.arguments \o _function_arguments
                       ELSE entry.function.arguments]]

\* Lines 384-408: the body of the for loop, for one fragment.
MergeFragment(st, _tool_call) ==
    LET _index == _tool_call.index
        _tool_call_id == _tool_call.id
        _tool_call_type == _tool_call.type
        _function_name ==
            IF _tool_call.function.present THEN _tool_call.function.name ELSE None
        _function_arguments ==
            IF _tool_call.function.present THEN _tool_call.function.arguments ELSE None
        grown == ExtendToolCalls(st, _index)
        ref == grown.tool_calls[_index + 1]
        tool_call_entry == grown.heap[ref]
    IN  [tool_calls |-> grown.tool_calls,
         heap |-> [grown.heap EXCEPT ![ref] =
                     IF DOMAIN tool_call_entry = {}
                     THEN InitEntry(_tool_call_id, _tool_call_type,
                                    _function_name, _function_arguments)
                     ELSE MergeEntry(tool_call_entry, _tool_call_id, _tool_call_type,
                                     _function_name, _function_arguments)]]

\* Lines 382-409: the whole function, as a fold of the loop body.
RECURSIVE parse_tool_calls(_)
parse_tool_calls(data) ==
    IF data = <<>> THEN EmptyToolCalls
    ELSE MergeFragment(parse_tool_calls(SubSeq(data, 1, Len(data) - 1)), data[Len(data)])

(***************************************************************************)
(* The adapter instance: cached clients, audio transcription and           *)
(* format_message                                                          *)
(***************************************************************************)

\* Calls of one kind that construct a client, and calls on one message.
MaxClients == 2
MaxFormats == 2

\* Groq.client / Groq.async_client: None (line 67-68), or the k-th client
\* object constructed by this adapter.
NoClient == 0

\* Fields of the dataclass, lines 35-36.
ModelId == "llama-3.3-70b-versatile"
ModelName == "Groq"

\* The adapter's mutable fields and the number of GroqClient(...) and
\* AsyncGroqClient(...) constructor calls it has made.
NewAdapter ==
    [client |-> NoClient, async_client |-> NoClient, sync_made |-> 0, async_made |-> 0]

\* A get_client that does not cache what it constructs.
get_client_uncached(self) ==
    IF self.client # NoClient
    THEN [self |-> self, ret |-> self.client]
    ELSE [self |-> [self EXCEPT !.sync_made = @ + 1], ret |-> self.sync_made + 1]

\* Lines 93-108.
get_client(self) ==
    IF self.client # NoClient
    THEN [self |-> self, ret |-> self.client]
    ELSE [self |-> [self EXCEPT !.client = self.sync_made + 1, !.sync_made = @ + 1],
          ret |-> self.sync_made + 1]

\* Lines 110-128: the constructed client is returned without being stored.
get_async_client(self) ==
    IF self.async_client # NoClient
    THEN [self |-> self, ret |-> self.async_client]
    ELSE [self |-> [self EXCEPT !.async_made = @ + 1], ret |-> self.async_made + 1]

\* Exceptions.  `response` is meaningful for the two classes that carry one.
NoResponse == [status_code |-> 0, text |-> ""]

Exc(type, message) == [type |-> type, message |-> message, response |-> NoResponse]

\* What the vendor SDK call may raise.
ProviderErrors ==
    { [type |-> "APIStatusError", message |-> "Error code: 429",
       response |-> [status_code |-> 429, text |-> "rate limited"]],
      [type |-> "APIResponseValidationError", message |-> "Data returned by API invalid",
       response |-> [status_code |-> 200, text |-> "not json"]],
      [type |-> "APIConnectionError", message |-> "Connection error.",
       response |-> NoResponse],
      [type |-> "RuntimeError", message |-> "boom", response |-> NoResponse] }

NoError == Exc("None", "")

\* Outcome of one vendor SDK call: completion, or one of the errors.
ProviderOutcomes == { NoError } \cup ProviderErrors

\* agno.media.Audio values.  audio_url_content is the content fetched from
\* url; the file system holds "speech.wav" and not "missing.wav".
AudioValue(content, url, audio_url_content, filepath, format) ==
    [content |-> content, url |-> url, audio_url_content |-> audio_url_content,
     filepath |-> filepath, format |-> format]

AudioBytes == AudioValue("embedded-bytes", None, None, None, "wav")
AudioUrl == AudioValue(None, "https://a/b.ogg", "url-bytes", None, None)
AudioFile == AudioValue(None, None, None, "speech.wav", None)
AudioMissingFile == AudioValue(None, None, None, "missing.wav", "wav")
AudioNothing == AudioValue(None, None, None, None, None)

Audios == { AudioBytes, AudioUrl, AudioFile, AudioMissingFile, AudioNothing }

PathExists(path) == path = "speech.wav"

FileContent(path) == "file-bytes"

\* Lines 495-525.  The result is the bytes, or None.
_format_audio_for_message(audio) ==
    IF Truthy(audio.content) THEN audio.content
    ELSE IF audio.url # None /\ audio.audio_url_content # None THEN audio.audio_url_content
    ELSE IF audio.filepath # None
         THEN IF PathExists(audio.filepath) THEN FileContent(audio.filepath) ELSE None
    ELSE None

\* The audio_data argument: raw bytes, one Audio, or a list of Audio.
RawAudio == [kind |-> "bytes", bytes |-> "raw-bytes", items |-> <<>>]
OneAudio(a) == [kind |-> "Audio", bytes |-> None, items |-> <<a>>]
AudioList(items) == [kind |-> "list", bytes |-> None, items |-> items]

AudioData ==
    { RawAudio, AudioList(<<>>), AudioList(<<AudioMissingFile, AudioBytes>>),
      AudioList(<<AudioUrl>>) }
    \cup { OneAudio(a) : a \in Audios }

\* The optional keyword arguments language, prompt and temperature.
NoOptions == [language |-> None, prompt |-> None, temperature |-> None]
\* A keyword argument left out by the caller takes the signature's default.
NotPassed == "NotPassed"

\* Lines 533 and 598: the default of response_format.
DefaultResponseFormat(variant) == IF variant = "sync" THEN "text" ELSE "json"

\* Lines 553-571 / 618-637: the bytes and file format, or the ValueError.
ResolveAudio(audio_data, file_format) ==
    IF (audio_data.kind = "list" /\ Len(audio_data.items) > 0) \/ audio_data.kind = "Audio"
    THEN LET audio_obj == audio_data.items[1]
             processed_audio == _format_audio_for_message(audio_obj)
         IN  IF processed_audio = None
             THEN [error |-> Exc("ValueError", "Failed to process audio data"),
                   audio_bytes |-> None, file_format |-> file_format]
             ELSE [error |-> NoError,
                   audio_bytes |-> processed_audio,
                   file_format |-> IF ~Truthy(file_format) /\ Truthy(audio_obj.format)
                                   THEN audio_obj.format ELSE file_format]
    ELSE [error |-> NoError,
          audio_bytes |-> IF audio_data.kind = "bytes" THEN audio_data.bytes ELSE "[]",
          file_format |-> file_format]

\* Lines 573-581 / 640-648: the dict of optional request parameters.
TranscribeParams(opts, response_format) ==
    [k \in { key \in {"language", "prompt"} : Truthy(opts[key]) }
           \cup (IF Truthy(response_format) THEN {"response_format"} ELSE {})
           \cup (IF opts.temperature # None THEN {"temperature"} ELSE {})
       |-> IF k = "response_format" THEN response_format ELSE opts[k]]

\* Lines 583-584 (sync) and 651 (async).
TranscribeFileName(variant, file_format) ==
    IF variant = "sync"
    THEN "audio." \o (IF Truthy(file_format) THEN file_format ELSE "mp3")
    ELSE IF Truthy(file_format) THEN "audio." \o file_format ELSE "audio.mp3"

\* Result of a method call: the adapter afterwards, what was returned or
\* raised, the requests sent to the provider, and the results of the
\* get_client ("sync") and get_async_client ("async") calls it made.
Returned(self, value, requests, clients) ==
    [self |-> self, outcome |-> "returned", value |-> value, error |-> NoError,
     requests |-> requests, clients |-> clients]

Raised(self, error, requests, clients) ==
    [self |-> self, outcome |-> "raised", value |-> None, error |-> error,
     requests |-> requests, clients |-> clients]

\* A transcribe_audio that obtains the client before it looks at the audio.
transcribe_audio_client_first(self, variant, audio_data, file_format_arg, opts, response_format_arg, model, net) ==
    LET response_format ==
            IF response_format_arg = NotPassed
            THEN DefaultResponseFormat(variant) ELSE response_format_arg
        resolved == ResolveAudio(audio_data, file_format_arg)
        got == IF variant = "sync" THEN get_client(self) ELSE get_async_client(self)
        request == [endpoint |-> "audio.transcriptions",
                    client |-> got.ret,
                    file |-> <<TranscribeFileName(variant, resolved.file_format),
                               resolved.audio_bytes>>,
                    model |-> model,
                    params |-> TranscribeParams(opts, response_format)]
    IN  IF resolved.error # NoError
        THEN Raised(got.self, resolved.error, <<>>, <<<<variant, got.ret>>>>)
        ELSE IF net # NoError
        THEN Raised(got.self, net, <<request>>, <<<<variant, got.ret>>>>)
        ELSE Returned(got.self, "transcript", <<request>>, <<<<variant, got.ret>>>>)

\* Lines 527-590 (variant "sync") and 592-658 (variant "async").  net is the
\* outcome of client.audio.transcriptions.create.
transcribe_audio(self, variant, audio_data, file_format_arg, opts, response_format_arg, model, net) ==
    LET response_format ==
            IF response_format_arg = NotPassed
            THEN DefaultResponseFormat(variant) ELSE response_format_arg
        resolved == ResolveAudio(audio_data, file_format_arg)
        got == IF variant = "sync" THEN get_client(self) ELSE get_async_client(self)
        request == [endpoint |-> "audio.transcriptions",
                    client |-> got.ret,
                    file |-> <<TranscribeFileName(variant, resolved.file_format),
                               resolved.audio_bytes>>,
                    model |-> model,
                    params |-> TranscribeParams(opts, response_format)]
    IN  IF resolved.error # NoError
        THEN Raised(self, resolved.error, <<>>, <<>>)
        ELSE IF net # NoError
        THEN Raised(got.self, net, <<request>>, <<<<variant, got.ret>>>>)
        ELSE Returned(got.self, "transcript", <<request>>, <<<<variant, got.ret>>>>)

\* Optional[List]: None, or a list.
NoList == [none |-> TRUE, items |-> <<>>]
ListOf(items) == [none |-> FALSE, items |-> items]

\* Message.content: None, a str (a sequence of text pieces), or a list of
\* content parts.
NoContent == [kind |-> "none", text |-> <<>>, parts |-> <<>>]
StrContent(text) == [kind |-> "str", text |-> text, parts |-> <<>>]
ListContent(parts) == [kind |-> "list", text |-> <<>>, parts |-> parts]

TextPart(text) == [type |-> "text", text |-> text]

\* Line 228: the text appended for a JSON response format.
JsonDirective == "\n\nYour output should be in JSON format."

\* Groq.response_format: Optional[Dict[str, Any]].
NoResponseFormat == [none |-> TRUE, dict |-> EmptyDict]
ResponseFormatDict(d) == [none |-> FALSE, dict |-> d]

ResponseFormats ==
    { NoResponseFormat,
      ResponseFormatDict([type |-> "json_object"]),
      ResponseFormatDict([type |-> "text"]) }

\* Python dict.get(key): the value, or None.
DictGet(d, key) == IF key \in DOMAIN d THEN d[key] ELSE None

\* agno.models.message.Message, the fields the adapter reads.
Message(role, content, name, tool_call_id, tool_calls_, images, audio, videos) ==
    [role |-> role, content |-> content, name |-> name, tool_call_id |-> tool_call_id,
     tool_calls |-> tool_calls_, images |-> images, audio |-> audio, videos |-> videos]

Contents ==
    { NoContent, StrContent(<<"hello">>), ListContent(<<TextPart(<<"hello">>)>>) }

\* The messages a caller may hold.
Attachments ==
    { [images |-> NoList, audio |-> NoList, videos |-> NoList],
      [images |-> ListOf(<<"image-1">>), audio |-> NoList, videos |-> NoList],
      [images |-> ListOf(<<>>), audio |-> NoList, videos |-> ListOf(<<"video-1">>)],
      [images |-> NoList, audio |-> ListOf(<<AudioBytes>>), videos |-> NoList],
      [images |-> ListOf(<<"image-1">>), audio |-> ListOf(<<AudioMissingFile>>),
       videos |-> NoList] }

NoAttachment == [images |-> NoList, audio |-> NoList, videos |-> NoList]

Messages ==
    { Message("system", content, None, None, NoList, att.images, att.audio, att.videos) :
        content \in Contents, att \in Attachments }
    \cup { Message("user", StrContent(<<"hello">>), None, None, NoList,
                   att.images, att.audio, att.videos) : att \in Attachments }
    \cup { Message("assistant", content, None, None, ListOf(<<"call_1">>),
                   NoList, NoList, NoList) : content \in Contents }
    \cup { Message("tool", content, "get_weather", "call_1", NoList,
                   NoList, NoList, NoList) : content \in Contents }

MessageDictKeys == {"role", "content", "name", "tool_call_id", "tool_calls"}

IsNoneField(key, value) ==
    IF key = "content" THEN value.kind = "none"
    ELSE IF key = "tool_calls" THEN value.none
    ELSE value = None

\* agno.utils.openai.images_to_message: one image part per image.
images_to_message(images) ==
    [i \in 1..Len(images) |-> [type |-> "image_url", image_url |-> images[i]]]

\* Python `d[key] = value` on a dict.
DictSet(d, key, value) == [k \in DOMAIN d \cup {key} |-> IF k = key THEN value ELSE d[k]]

\* Lines 221-226: the condition under which the directive is appended.
WantsJsonDirective(response_format, message) ==
    /\ message.role = "system"
    /\ message.content.kind = "str"
    /\ ~response_format.none
    /\ DictGet(response_format.dict, "type") = "json_object"

\* Lines 212-219: the mapping of the non-None fields.
NonNoneFields(message) ==
    [k \in { key \in MessageDictKeys : ~IsNoneField(key, message[key]) } |-> message[k]]

\* Line 228: `message.content += ...` rebinds the attribute of the caller's
\* Message to a new str.
AppendDirective(message) ==
    [message EXCEPT !.content = StrContent(Append(message.content.text, JsonDirective))]

\* A format_message without the try/except around the transcription: what
\* transcribe_audio raises reaches the caller.
format_message_unguarded(self, response_format, message, net) ==
    LET message_dict == NonNoneFields(message)
        after == IF WantsJsonDirective(response_format, message)
                 THEN AppendDirective(message) ELSE message
        with_images ==
            IF ~after.images.none /\ Len(after.images.items) > 0
               /\ after.content.kind = "str"
            THEN DictSet(message_dict, "content",
                         ListContent(<<TextPart(after.content.text)>>
                                     \o images_to_message(after.images.items)))
            ELSE message_dict
        has_audio == ~after.audio.none /\ Len(after.audio.items) > 0
        transcription ==
            transcribe_audio(self, "sync", AudioList(after.audio.items), None, NoOptions,
                             "text", "whisper-large-v3-turbo", net)
    IN  [call |-> IF has_audio /\ transcription.outcome = "returned"
                  THEN Returned(transcription.self,
                                DictSet(with_images, "content",
                                        StrContent(<<"Audio Transcription: ",
                                                     transcription.value>>)),
                                transcription.requests, transcription.clients)
                  ELSE IF has_audio THEN transcription
                  ELSE Returned(self, with_images, <<>>, <<>>),
         message |-> after]

\* Lines 202-251.  net is the outcome of the transcription request, if one is
\* sent.  The result has the call's result and the caller's Message afterwards.
format_message(self, response_format, message, net) ==
    LET message_dict == NonNoneFields(message)
        after == IF WantsJsonDirective(response_format, message)
                 THEN AppendDirective(message) ELSE message
        with_images ==
            IF ~after.images.none /\ Len(after.images.items) > 0
               /\ after.content.kind = "str"
            THEN DictSet(message_dict, "content",
                         ListContent(<<TextPart(after.content.text)>>
                                     \o images_to_message(after.images.items)))
            ELSE message_dict
        has_audio == ~after.audio.none /\ Len(after.audio.items) > 0
        transcription ==
            transcribe_audio(self, "sync", AudioList(after.audio.items), None, NoOptions,
                             "text", "whisper-large-v3-turbo", net)
        with_audio ==
            IF has_audio /\ transcription.outcome = "returned"
            THEN DictSet(with_images, "content",
                         StrContent(<<"Audio Transcription: ", transcription.value>>))
            ELSE with_images
    IN  [call |-> IF has_audio
                  THEN Returned(transcription.self, with_audio,
                                transcription.requests, transcription.clients)
                  ELSE Returned(self, with_audio, <<>>, <<>>),
         message |-> after]

(***************************************************************************)
(* request_kwargs                                                          *)
(***************************************************************************)

\* An Optional option value: None, or a value.
NoValue == [none |-> TRUE, value |-> None]
Some(v) == [none |-> FALSE, value |-> v]

\* Groq.request_params: Optional[Dict[str, Any]].
NoRequestParams == [none |-> TRUE, dict |-> EmptyDict]
RequestParamsDict(d) == [none |-> FALSE, dict |-> d]

\* Lines 140-155: the keys of base_params.
BaseParamKeys ==
    {"frequency_penalty", "logit_bias", "logprobs", "max_tokens", "presence_penalty",
     "response_format", "seed", "stop", "temperature", "top_logprobs", "top_p", "user",
     "extra_headers", "extra_query"}

\* Lines 40-54, and _tools and tool_choice of the Model base class: the request
\* options of a new adapter, all None.  response_format is held apart.
DefaultConfig ==
    [frequency_penalty |-> NoValue, logit_bias |-> NoValue, logprobs |-> NoValue,
     max_tokens |-> NoValue, presence_penalty |-> NoValue, seed |-> NoValue,
     stop |-> NoValue, temperature |-> NoValue, top_logprobs |-> NoValue,
     top_p |-> NoValue, user |-> NoValue, extra_headers |-> NoValue,
     extra_query |-> NoValue, _tools |-> NoList, tool_choice |-> NoValue,
     request_params |-> NoRequestParams]

\* The request_params mappings a caller may configure.
RequestParams ==
    { NoRequestParams,
      RequestParamsDict(EmptyDict),
      RequestParamsDict([seed |-> Some("7")]),
      RequestParamsDict([temperature |-> NoValue]),
      RequestParamsDict([tool_choice |-> NoValue, top_p |-> Some("0.9")]) }

\* The configurations an adapter may be constructed with.
RequestConfigs ==
    { [DefaultConfig EXCEPT !.temperature = temperature, !.max_tokens = max_tokens,
                            !.stop = stop, !._tools = tools, !.tool_choice = tool_choice,
                            !.request_params = request_params] :
        temperature \in {NoValue, Some("0.5")},
        max_tokens \in {NoValue, Some("1024")},
        stop \in {NoValue, Some("END")},
        tools \in {NoList, ListOf(<<>>), ListOf(<<"get_weather">>)},
        tool_choice \in {NoValue, Some("auto")},
        request_params \in RequestParams }

\* Python `d.update(other)`.
DictUpdate(d, other) ==
    [k \in DOMAIN d \cup DOMAIN other |-> IF k \in DOMAIN other THEN other[k] ELSE d[k]]

\* Lines 130-165.  self is the adapter's request options.
request_kwargs(self, response_format) ==
    LET base_params ==
            [k \in BaseParamKeys |-> IF k = "response_format" THEN response_format ELSE self[k]]
        filtered == [k \in { key \in BaseParamKeys : ~base_params[key].none } |-> base_params[k]]
        with_tools ==
            IF ~self._tools.none THEN DictSet(filtered, "tools", self._tools) ELSE filtered
        with_tool_choice ==
            IF ~self._tools.none /\ ~self.tool_choice.none
            THEN DictSet(with_tools, "tool_choice", self.tool_choice)
            ELSE with_tools
    IN  IF ~self.request_params.none /\ DOMAIN self.request_params.dict # {}
        THEN DictUpdate(with_tool_choice, self.request_params.dict)
        ELSE with_tool_choice

(***************************************************************************)
(* invoke, ainvoke, invoke_stream, ainvoke_stream                          *)
(***************************************************************************)

\* Chunks a caller reads from one stream.
MaxChunks == 2

\* Classes of the groq SDK (line 17) and of Python an exception type derives
\* from, itself included.
Bases(type) ==
    IF type \in {"APIStatusError", "APIResponseValidationError", "APIConnectionError"}
    THEN {type, "APIError", "Exception"}
    ELSE {type, "Exception"}

IsInstance(e, classes) == Bases(e.type) \cap classes # {}

\* `raise ModelProviderError(**kwargs) from e`: the error with its keyword
\* arguments and its cause.
ModelProviderError(kwargs, e) ==
    [type |-> "ModelProviderError", kwargs |-> kwargs, cause |-> e]

\* An except chain that tries the APIError clause first.
TranslateErrorGenericFirst(e) ==
    IF IsInstance(e, {"APIError"})
    THEN ModelProviderError([message |-> e.message,
                             model_name |-> ModelName, model_id |-> ModelId], e)
    ELSE IF IsInstance(e, {"APIResponseValidationError", "APIStatusError"})
    THEN ModelProviderError([message |-> e.response.text,
                             status_code |-> e.response.status_code,
                             model_name |-> ModelName, model_id |-> ModelId], e)
    ELSE ModelProviderError([message |-> e.message,
                             model_name |-> ModelName, model_id |-> ModelId], e)

\* Lines 269-279 (and 297-307, 326-336, 358-368): the except clauses, in
\* order.  str(e) of an exception is its message.
TranslateError(e) ==
    IF IsInstance(e, {"APIResponseValidationError", "APIStatusError"})
    THEN ModelProviderError([message |-> e.response.text,
                             status_code |-> e.response.status_code,
                             model_name |-> ModelName, model_id |-> ModelId], e)
    ELSE IF IsInstance(e, {"APIError"})
    THEN ModelProviderError([message |-> e.message,
                             model_name |-> ModelName, model_id |-> ModelId], e)
    ELSE ModelProviderError([message |-> e.message,
                             model_name |-> ModelName, model_id |-> ModelId], e)

\* Lines 263-268, 291-296, 319-325, 349-355: the try block.  got is the
\* result of get_client / get_async_client, fm that of format_message on the
\* message, kwargs that of request_kwargs, net the outcome of
\* chat.completions.create.  The error, if any, is the one raised inside the
\* try block.
Completion(got, fm, kwargs, variant, stream_flag, net) ==
    IF net = NoError
    THEN Returned(fm.call.self,
                  IF stream_flag THEN "Stream" ELSE "ChatCompletion",
                  fm.call.requests
                     \o <<[endpoint |-> "chat.completions", client |-> got.ret,
                           model |-> ModelId, messages |-> <<fm.call.value>>,
                           stream |-> stream_flag, kwargs |-> kwargs]>>,
                  <<<<variant, got.ret>>>> \o fm.call.clients)
    ELSE Raised(fm.call.self, net,
                fm.call.requests
                   \o <<[endpoint |-> "chat.completions", client |-> got.ret,
                         model |-> ModelId, messages |-> <<fm.call.value>>,
                         stream |-> stream_flag, kwargs |-> kwargs]>>,
                <<<<variant, got.ret>>>> \o fm.call.clients)

\* The except clauses applied to what the try block raised.
Translated(call) ==
    IF call.outcome = "raised" THEN [call EXCEPT !.error = TranslateError(@)] ELSE call

(***************************************************************************)
(* State of one adapter instance and of its caller                         *)
(***************************************************************************)

VARIABLES
    tool_calls_data,   \* the fragments the for loop has consumed so far
    tool_calls,        \* the list being built: references into heap
    heap,              \* the dicts allocated by parse_tool_calls
    response_format,   \* Groq.response_format, set at construction
    config,            \* the other request options, set at construction
    adapter,           \* Groq.client, Groq.async_client and constructor counts
    message,           \* the caller's Message
    clients_returned,  \* every result of get_client / get_async_client so far
    last,              \* the last call: its name, arguments and result
    stream,            \* the stream the caller is reading, if any
    response,          \* the provider response handed to the normalizer
    model_response     \* the call's result, once it has been parsed

varsAdapter == <<response_format, config, adapter, message, clients_returned, last, stream>>

varsResponse == <<response, model_response>>

vars == <<tool_calls_data, tool_calls, heap,
          response_format, config, adapter, message, clients_returned, last, stream,
          response, model_response>>

\* One iteration of the loop of line 383 on the next fragment of the argument.
ParseToolCallsStep ==
    /\ Len(tool_calls_data) < MaxFrags
    /\ \E _tool_call \in ChoiceDeltaToolCall :
          LET st == MergeFragment([tool_calls |-> tool_calls, heap |-> heap], _tool_call)
          IN  /\ tool_calls_data' = Append(tool_calls_data, _tool_call)
              /\ tool_calls' = st.tool_calls
              /\ heap' = st.heap
    /\ UNCHANGED <<varsAdapter, varsResponse>>

varsToolCalls == <<tool_calls_data, tool_calls, heap>>

NoStream == [kind |-> "none", state |-> "none", chunks |-> 0]

\* The arguments recorded for a call; net is the outcome the call's
\* transcription request met, for the calls that format a message.
NoArgs == [variant |-> None, audio_data |-> RawAudio, file_format |-> None,
           options |-> NoOptions, response_format |-> None, net |-> NoError]

Call(op, args, before, call) == [op |-> op, args |-> args, before |-> before, call |-> call]

Range(seq) == { seq[k] : k \in 1..Len(seq) }

\* Number of times the directive occurs in a content text.
DirectiveCount(text) == Cardinality({ k \in 1..Len(text) : text[k] = JsonDirective })

\* The caller stops calling once the message has grown MaxFormats directives,
\* and once MaxClients async clients were constructed.
MayFormat == DirectiveCount(message.content.text) < MaxFormats
MayGetAsync == adapter.async_made < MaxClients

\* Outcomes of the transcription request made while formatting m: none is
\* made unless the message has audio.
FormatOutcomes(m) ==
    IF ~m.audio.none /\ Len(m.audio.items) > 0
    THEN { NoError } \cup { e \in ProviderErrors : e.type \in {"APIStatusError", "RuntimeError"} }
    ELSE { NoError }

\* The effect of a finished call on the adapter and on the caller's record.
Finish(op, args, result, new_message, new_stream) ==
    /\ adapter' = result.self
    /\ message' = new_message
    /\ clients_returned' = clients_returned \cup Range(result.clients)
    /\ last' = Call(op, args, message, result)
    /\ stream' = new_stream
    /\ UNCHANGED <<response_format, config, tool_calls_data, tool_calls, heap,
                   response, model_response>>

GetClient ==
    \E got \in { get_client(adapter) } :
       Finish("get_client", NoArgs,
              Returned(got.self, got.ret, <<>>, <<<<"sync", got.ret>>>>),
              message, NoStream)

GetAsyncClient ==
    /\ MayGetAsync
    /\ \E got \in { get_async_client(adapter) } :
          Finish("get_async_client", NoArgs,
                 Returned(got.self, got.ret, <<>>, <<<<"async", got.ret>>>>),
                 message, NoStream)

\* Lines 130-165: reading the property.
RequestKwargs ==
    \E kwargs \in { request_kwargs(config, response_format) } :
       Finish("request_kwargs", NoArgs, Returned(adapter, kwargs, <<>>, <<>>),
              message, NoStream)

FormatMessage ==
    /\ MayFormat
    /\ \E net \in FormatOutcomes(message) :
       \E fm \in { format_message(adapter, response_format, message, net) } :
          Finish("format_message", [NoArgs EXCEPT !.net = net], fm.call, fm.message, NoStream)

\* Lines 253-279.
Invoke ==
    /\ MayFormat
    /\ \E fmt_net \in FormatOutcomes(message), net \in ProviderOutcomes :
       \E got \in { get_client(adapter) } :
       \E fm \in { format_message(got.self, response_format, message, fmt_net) } :
       \E call \in { Translated(Completion(got, fm, request_kwargs(config, response_format),
                                               "sync", FALSE, net)) } :
          Finish("invoke", [NoArgs EXCEPT !.net = fmt_net], call, fm.message, NoStream)

\* Lines 281-307.
AInvoke ==
    /\ MayFormat
    /\ MayGetAsync
    /\ \E fmt_net \in FormatOutcomes(message), net \in ProviderOutcomes :
       \E got \in { get_async_client(adapter) } :
       \E fm \in { format_message(got.self, response_format, message, fmt_net) } :
       \E call \in { Translated(Completion(got, fm, request_kwargs(config, response_format),
                                               "async", FALSE, net)) } :
          Finish("ainvoke", NoArgs, call, fm.message, NoStream)

\* Lines 309-336: the try block covers the call that returns the SDK's stream
\* object, which is handed to the caller.
InvokeStream ==
    /\ MayFormat
    /\ \E fmt_net \in FormatOutcomes(message), net \in ProviderOutcomes :
       \E got \in { get_client(adapter) } :
       \E fm \in { format_message(got.self, response_format, message, fmt_net) } :
       \E call \in { Translated(Completion(got, fm, request_kwargs(config, response_format),
                                               "sync", TRUE, net)) } :
          Finish("invoke_stream", NoArgs, call, fm.message,
                 IF net = NoError
                 THEN [kind |-> "sync", state |-> "open", chunks |-> 0]
                 ELSE NoStream)

\* What reading the next item of the SDK's stream gives: a chunk, the end of
\* the stream, or an error raised by the SDK.
StreamEnd == Exc("StopIteration", "")
StreamItems == { NoError, StreamEnd } \cup ProviderErrors

\* The caller reads the stream returned by invoke_stream: no code of the
\* adapter runs, so what the SDK raises reaches the caller as it is.
NextChunk ==
    /\ stream.kind = "sync" /\ stream.state = "open"
    /\ \E item \in StreamItems :
          /\ item = NoError => stream.chunks < MaxChunks
          /\ Finish("next(invoke_stream)", NoArgs,
                    IF item = NoError
                    THEN Returned(adapter, "ChatCompletionChunk", <<>>, <<>>)
                    ELSE Raised(adapter, item, <<>>, <<>>),
                    message,
                    IF item = NoError
                    THEN [stream EXCEPT !.chunks = @ + 1]
                    ELSE [stream EXCEPT !.state = "done"])

\* Calling the async generator function runs none of its body.
AInvokeStream ==
    \E generator \in { [kind |-> "async", state |-> "created", chunks |-> 0] } :
       Finish("ainvoke_stream", NoArgs, Returned(adapter, "async_generator", <<>>, <<>>),
              message, generator)

\* Lines 356-368: one item of the stream inside the try block of the
\* generator: a chunk is yielded, the end finishes the generator, an error is
\* handled by the except clauses.
AsyncItem(self, item, requests, clients) ==
    IF item = NoError THEN Returned(self, "ChatCompletionChunk", requests, clients)
    ELSE IF item = StreamEnd THEN Raised(self, Exc("StopAsyncIteration", ""), requests, clients)
    ELSE Raised(self, TranslateError(item), requests, clients)

AsyncStreamAfter(item) ==
    IF item = NoError
    THEN [kind |-> "async", state |-> "open", chunks |-> stream.chunks + 1]
    ELSE [kind |-> "async", state |-> "done", chunks |-> stream.chunks]

\* Lines 349-368: the caller asks the generator for its first item, and the
\* body runs up to the first yield.
ANextChunkFirst ==
    /\ stream.kind = "async" /\ stream.state = "created"
    /\ MayFormat
    /\ MayGetAsync
    /\ \E fmt_net \in FormatOutcomes(message), net \in ProviderOutcomes :
       \E got \in { get_async_client(adapter) } :
       \E fm \in { format_message(got.self, response_format, message, fmt_net) } :
       \E call \in { Translated(Completion(got, fm, request_kwargs(config, response_format),
                                               "async", TRUE, net)) } :
          IF net # NoError
          THEN Finish("anext(ainvoke_stream)", NoArgs, call, fm.message,
                      [kind |-> "async", state |-> "done", chunks |-> 0])
          ELSE \E item \in StreamItems :
                  Finish("anext(ainvoke_stream)", NoArgs,
                         AsyncItem(call.self, item, call.requests, call.clients),
                         fm.message, AsyncStreamAfter(item))

\* The caller asks for a further item: the generator resumes after the yield.
ANextChunk ==
    /\ stream.kind = "async" /\ stream.state = "open"
    /\ \E item \in StreamItems :
          /\ item = NoError => stream.chunks < MaxChunks
          /\ Finish("anext(ainvoke_stream)", NoArgs,
                    AsyncItem(adapter, item, <<>>, <<>>), message, AsyncStreamAfter(item))

TranscribeArgs(variant) ==
    { [variant |-> variant, audio_data |-> a, file_format |-> kw[1], options |-> kw[2],
       response_format |-> rf] :
        a \in AudioData,
        kw \in { <<None, NoOptions>>, <<"ogg", [language |-> "en", prompt |-> "",
                                                temperature |-> "0.0"]>> },
        rf \in {NotPassed, None, "verbose_json"} }

\* Outcomes of the transcription request: none is made when the audio cannot
\* be resolved.
TranscribeOutcomes(args) ==
    IF ResolveAudio(args.audio_data, args.file_format).error = NoError
    THEN ProviderOutcomes ELSE { NoError }

TranscribeCall(variant) ==
    \E args \in TranscribeArgs(variant) : \E net \in TranscribeOutcomes(args) :
    \E call \in { transcribe_audio(adapter, variant, args.audio_data, args.file_format,
                                   args.options, args.response_format,
                                   "whisper-large-v3-turbo", net) } :
       Finish(IF variant = "sync" THEN "transcribe_audio" ELSE "atranscribe_audio",
              args, call, message, NoStream)

TranscribeAudio == \E variant \in {"sync"} : TranscribeCall(variant)

ATranscribeAudio == MayGetAsync /\ \E variant \in {"async"} : TranscribeCall(variant)

(***************************************************************************)
(* parse_provider_response and parse_provider_response_delta               *)
(***************************************************************************)

\* Tool calls in one complete response.
MaxToolCalls == 2

\* Optional[int]: None, or a number.
NoInt == [none |-> TRUE, value |-> 0]
Int_(n) == [none |-> FALSE, value |-> n]

\* Tool-call objects of a response; model_dump() raises on the malformed one.
ToolCallObject(id, name, valid) ==
    [id |-> id, type |-> "function",
     function |-> [name |-> name, arguments |-> "{}"], valid |-> valid]

ToolCallObjects ==
    { ToolCallObject("call_1", "get_weather", TRUE),
      ToolCallObject("call_2", "get_time", TRUE),
      ToolCallObject("call_3", "broken", FALSE) }

\* t.model_dump(): the mapping form of a tool-call object.
model_dump(t) == [id |-> t.id, type |-> t.type, function |-> t.function]

\* A conversion that leaves out the tool calls it cannot convert.
RECURSIVE DumpValidOnes(_)
DumpValidOnes(tcs) ==
    IF tcs = <<>> THEN [raised |-> FALSE, list |-> <<>>]
    ELSE LET rest == DumpValidOnes(Tail(tcs))
         IN  IF Head(tcs).valid
             THEN [raised |-> FALSE, list |-> <<model_dump(Head(tcs))>> \o rest.list]
             ELSE rest

\* Line 437: the list comprehension; an exception in any model_dump() ends it
\* without a list.
RECURSIVE DumpAll(_)
DumpAll(tcs) ==
    IF tcs = <<>> THEN [raised |-> FALSE, list |-> <<>>]
    ELSE IF ~Head(tcs).valid THEN [raised |-> TRUE, list |-> <<>>]
    ELSE LET rest == DumpAll(Tail(tcs))
         IN  IF rest.raised THEN rest
             ELSE [raised |-> FALSE, list |-> <<model_dump(Head(tcs))>> \o rest.list]

\* CompletionUsage as the provider sent it.
Usage(prompt_tokens, completion_tokens, total_tokens, queue_time) ==
    [none |-> FALSE, prompt_tokens |-> prompt_tokens,
     completion_tokens |-> completion_tokens, total_tokens |-> total_tokens,
     completion_time |-> "0.2", prompt_time |-> None, queue_time |-> queue_time,
     total_time |-> "0.3"]

NoUsage == [Usage(0, 0, NoInt, None) EXCEPT !.none = TRUE]

Usages ==
    { NoUsage, Usage(10, 5, NoInt, None), Usage(10, 5, Int_(15), "0.1"),
      Usage(7, 0, Int_(20), None) }

\* Line 421 / 466: ModelResponse() with nothing set.
NewModelResponse ==
    [role |-> None, content |-> None, tool_calls |-> NoList,
     usage_set |-> FALSE, response_usage |-> EmptyDict]

\* A usage mapping whose total is always the local sum.
UsageDictSummed(usage) ==
    [input_tokens |-> usage.prompt_tokens,
     output_tokens |-> usage.completion_tokens,
     total_tokens |-> Int_(usage.prompt_tokens + usage.completion_tokens),
     additional_metrics |->
        [completion_time |-> usage.completion_time, prompt_time |-> usage.prompt_time,
         queue_time |-> usage.queue_time, total_time |-> usage.total_time]]

\* Lines 443-453 and 481-491: the usage mapping.
UsageDict(usage) ==
    [input_tokens |-> usage.prompt_tokens,
     output_tokens |-> usage.completion_tokens,
     total_tokens |-> usage.total_tokens,
     additional_metrics |->
        [completion_time |-> usage.completion_time, prompt_time |-> usage.prompt_time,
         queue_time |-> usage.queue_time, total_time |-> usage.total_time]]

WithUsage(model_response_, usage) ==
    IF ~usage.none
    THEN [model_response_ EXCEPT !.usage_set = TRUE, !.response_usage = UsageDict(usage)]
    ELSE model_response_

\* Lines 411-454.  response is a ChatCompletion.
parse_provider_response(response_) ==
    LET response_message == response_.choices[1].message
        with_role ==
            IF response_message.role # None
            THEN [NewModelResponse EXCEPT !.role = response_message.role]
            ELSE NewModelResponse
        with_content ==
            IF response_message.content # None
            THEN [with_role EXCEPT !.content = response_message.content]
            ELSE with_role
        dumped == DumpAll(response_message.tool_calls.items)
        with_tool_calls ==
            IF ~response_message.tool_calls.none /\ Len(response_message.tool_calls.items) > 0
               /\ ~dumped.raised
            THEN [with_content EXCEPT !.tool_calls = ListOf(dumped.list)]
            ELSE with_content
    IN  [outcome |-> "returned", value |-> WithUsage(with_tool_calls, response_.usage)]

\* Lines 456-493.  response is a ChatCompletionChunk.
parse_provider_response_delta(response_) ==
    LET delta == response_.choices[1].delta
        with_content ==
            IF Len(response_.choices) > 0 /\ delta.content # None
            THEN [NewModelResponse EXCEPT !.content = delta.content]
            ELSE NewModelResponse
        with_tool_calls ==
            IF Len(response_.choices) > 0 /\ ~delta.tool_calls.none
            THEN [with_content EXCEPT !.tool_calls = delta.tool_calls]
            ELSE with_content
    IN  [outcome |-> "returned",
         value |-> IF ~response_.x_groq.none
                   THEN WithUsage(with_tool_calls, response_.x_groq.usage)
                   ELSE with_tool_calls]

RECURSIVE SeqsUpTo(_, _)
SeqsUpTo(S, n) ==
    IF n = 0 THEN { <<>> }
    ELSE LET shorter == SeqsUpTo(S, n - 1)
         IN  shorter \cup { Append(q, x) : q \in shorter, x \in S }

\* The complete responses and the stream chunks the provider may send.
ChatCompletions ==
    { [kind |-> "ChatCompletion",
       choices |-> <<[message |-> [role |-> role, content |-> content, tool_calls |-> tcs]]>>,
       usage |-> usage] :
        role \in {None, "assistant"},
        content \in {None, "It is sunny."},
        tcs \in {NoList} \cup { ListOf(q) : q \in SeqsUpTo(ToolCallObjects, MaxToolCalls) },
        usage \in Usages }

ChatCompletionChunks ==
    { [kind |-> "ChatCompletionChunk", choices |-> choices, x_groq |-> x] :
        choices \in { <<>> }
            \cup { <<[delta |-> [content |-> content, tool_calls |-> tcs]]>> :
                     content \in {None, "It is"},
                     tcs \in {NoList, ListOf(<<[index |-> 0, id |-> "call_1",
                                                type |-> "function",
                                                function |-> NoFunction]>>)} },
        x \in { [none |-> TRUE, usage |-> NoUsage] }
            \cup { [none |-> FALSE, usage |-> u] : u \in Usages } }

NotParsed == [outcome |-> "none", value |-> NewModelResponse]

ParseProviderResponse ==
    /\ response.kind = "ChatCompletion"
    /\ model_response = NotParsed
    /\ model_response' = parse_provider_response(response)
    /\ UNCHANGED <<response, varsToolCalls, varsAdapter>>

ParseProviderResponseDelta ==
    /\ response.kind = "ChatCompletionChunk"
    /\ model_response = NotParsed
    /\ model_response' = parse_provider_response_delta(response)
    /\ UNCHANGED <<response, varsToolCalls, varsAdapter>>

(***************************************************************************)
(* Specifications                                                          *)
(***************************************************************************)

\* The state after construction: an empty tool_calls list, a new adapter with
\* one of the given response formats and configurations, a caller holding one
\* of the given messages, and one of the given provider responses not yet
\* parsed.
InitWith(response_formats, configs, messages, responses) ==
    /\ tool_calls_data = <<>>
    /\ tool_calls = EmptyToolCalls.tool_calls
    /\ heap = EmptyToolCalls.heap
    /\ response_format \in response_formats
    /\ config \in configs
    /\ adapter = NewAdapter
    /\ message \in messages
    /\ clients_returned = {}
    /\ last = Call("none", NoArgs, message, Returned(NewAdapter, None, <<>>, <<>>))
    /\ stream = NoStream
    /\ response \in responses
    /\ model_response = NotParsed

\* A message and a response for the specifications that are not about them.
IdleMessage == Message("user", StrContent(<<"hello">>), None, None, NoList, NoList, NoList, NoList)
IdleResponse == [kind |-> "ChatCompletionChunk", choices |-> <<>>,
                 x_groq |-> [none |-> TRUE, usage |-> NoUsage]]

InitToolCalls == InitWith({NoResponseFormat}, {DefaultConfig}, {IdleMessage}, {IdleResponse})

NextToolCalls == ParseToolCallsStep

SpecToolCalls == InitToolCalls /\ [][NextToolCalls]_vars

InitResponse ==
    InitWith({NoResponseFormat}, {DefaultConfig}, {IdleMessage},
             ChatCompletions \cup ChatCompletionChunks)

NextResponse ==
    \/ ParseProviderResponse
    \/ ParseProviderResponseDelta

SpecResponse == InitResponse /\ [][NextResponse]_vars

InitAdapter == InitWith(ResponseFormats, {DefaultConfig}, Messages, {IdleResponse})

NextAdapter ==
    \/ GetClient
    \/ GetAsyncClient
    \/ FormatMessage
    \/ Invoke
    \/ AInvoke
    \/ InvokeStream
    \/ NextChunk
    \/ AInvokeStream
    \/ ANextChunkFirst
    \/ ANextChunk

SpecAdapter == InitAdapter /\ [][NextAdapter]_vars

InitTranscribe == InitWith({NoResponseFormat}, {DefaultConfig}, {IdleMessage}, {IdleResponse})

NextTranscribe ==
    \/ TranscribeAudio
    \/ ATranscribeAudio

SpecTranscribe == InitTranscribe /\ [][NextTranscribe]_vars

InitRequest == InitWith(ResponseFormats, RequestConfigs, {IdleMessage}, {IdleResponse})

NextRequest ==
    \/ RequestKwargs
    \/ Invoke

SpecRequest == InitRequest /\ [][NextRequest]_vars

(***************************************************************************)
(* Properties                                                              *)
(***************************************************************************)

\* The dict the returned list holds at position i (0-based).
Entry(i) == heap[tool_calls[i + 1]]

FragmentsOf(i) == SelectSeq(tool_calls_data, LAMBDA f : f.index = i)

IndicesSeen == { tool_calls_data[k].index : k \in 1..Len(tool_calls_data) }

\* What parse_tool_calls returns at position i for the fragments of index i
\* alone.
MergedAlone(i) ==
    LET st == parse_tool_calls(FragmentsOf(i)) IN st.heap[st.tool_calls[i + 1]]

\* Text a fragment contributes: a missing function, name or arguments
\* contributes the empty string.
NameText(f) == IF f.function.present /\ f.function.name # None THEN f.function.name ELSE ""
ArgumentsText(f) ==
    IF f.function.present /\ f.function.arguments # None THEN f.function.arguments ELSE ""

RECURSIVE ConcatNames(_)
ConcatNames(data) ==
    IF data = <<>> THEN "" ELSE NameText(Head(data)) \o ConcatNames(Tail(data))

RECURSIVE ConcatArguments(_)
ConcatArguments(data) ==
    IF data = <<>> THEN "" ELSE ArgumentsText(Head(data)) \o ConcatArguments(Tail(data))

AllSameIndex(i) ==
    /\ tool_calls_data # <<>>
    /\ \A k \in 1..Len(tool_calls_data) : tool_calls_data[k].index = i

\* C1: whatever the order in which the indices arrive, the list has one
\* position per index up to the largest one seen, and the entry at every index
\* that some fragment carried is exactly what merging the fragments of that
\* index alone gives (so indices <<1, 0>> give two entries, each holding its
\* own fragment's id, type, name and arguments).
C1_EntriesHoldOwnFragments ==
    \A i \in IndicesSeen :
        /\ Len(tool_calls) > i
        /\ Entry(i) = MergedAlone(i)

\* C2: when all fragments carry the same index, the entry at that index has
\* as name the concatenation in arrival order of the fragments' names, and as
\* arguments the concatenation in arrival order of their argument texts.
C2_SameIndexConcatenates ==
    \A i \in 0..MaxIndex :
        AllSameIndex(i) =>
            /\ Len(tool_calls) = i + 1
            /\ Entry(i).function.name = ConcatNames(tool_calls_data)
            /\ Entry(i).function.arguments = ConcatArguments(tool_calls_data)

\* Three fragments of one index whose texts build "get_weather" and "{}".
C2_Witness ==
    \E i \in 0..MaxIndex :
        /\ AllSameIndex(i)
        /\ Len(tool_calls_data) = 3
        /\ Entry(i).function.name = "get_weather"
        /\ Entry(i).function.arguments = "{}"

IsJsonObject == ~response_format.none /\ DictGet(response_format.dict, "type") = "json_object"

NoAttachments(m) == m.images.none /\ m.audio.none /\ m.videos.none

EndsWithDirective(text) == Len(text) > 0 /\ text[Len(text)] = JsonDirective

\* C3: format_message on a system message with plain-text content, under a
\* json_object response format, returns a mapping whose content string ends
\* with the JSON directive and contains it exactly once.
C3_ReturnedContentEndsWithDirectiveOnce ==
    (/\ last.op = "format_message"
     /\ last.before.role = "system"
     /\ last.before.content.kind = "str"
     /\ NoAttachments(last.before)
     /\ IsJsonObject)
    => LET content == last.call.value["content"]
       IN  /\ content.kind = "str"
           /\ EndsWithDirective(content.text)
           /\ DirectiveCount(content.text) = 1

InvocationOps ==
    {"invoke", "ainvoke", "invoke_stream", "next(invoke_stream)",
     "ainvoke_stream", "anext(ainvoke_stream)"}

\* The end of a stream is signalled by an exception that is not a failure.
EndOfStream == {"StopIteration", "StopAsyncIteration"}

\* C4: whatever fails in one of the four invocation variants, while the
\* request is made or while the caller reads the chunks of the stream, what
\* reaches the caller is a ModelProviderError.
C4_FailuresReachCallerNormalized ==
    (/\ last.op \in InvocationOps
     /\ last.call.outcome = "raised"
     /\ last.call.error.type \notin EndOfStream)
    => last.call.error.type = "ModelProviderError"

\* C5: invoke and ainvoke re-raise a validation/status error with its HTTP
\* status and response body, a generic API error with its message and no
\* status code, any other exception with its text; the error always carries
\* the model name and id, and a status error is never treated as a generic
\* API error.
C5_ErrorClassification ==
    (last.op \in {"invoke", "ainvoke"} /\ last.call.outcome = "raised")
    => LET err == last.call.error
           e == err.cause
       IN  /\ err.type = "ModelProviderError"
           /\ err.kwargs.model_name = ModelName
           /\ err.kwargs.model_id = ModelId
           /\ IF e.type \in {"APIStatusError", "APIResponseValidationError"}
              THEN /\ "status_code" \in DOMAIN err.kwargs
                   /\ err.kwargs.status_code = e.response.status_code
                   /\ err.kwargs.message = e.response.text
              ELSE /\ "status_code" \notin DOMAIN err.kwargs
                   /\ err.kwargs.message = e.message

\* A 429 "rate limited" answer to ainvoke.
C5_Witness ==
    /\ last.op = "ainvoke"
    /\ last.call.outcome = "raised"
    /\ last.call.error.cause.type = "APIStatusError"
    /\ last.call.error.kwargs.status_code = 429
    /\ last.call.error.kwargs.message = "rate limited"

Parsed == model_response.outcome # "none"

ResponseToolCalls == response.choices[1].message.tool_calls

AllValid(tcs) == \A k \in 1..Len(tcs) : tcs[k].valid

\* C6: for a complete response with n > 0 tool calls, the parsed response has
\* the n converted tool calls when every conversion succeeds and no tool_calls
\* at all when one fails; it is returned, not raised, in both cases.
C6_ToolCallsAllOrNothing ==
    (/\ Parsed
     /\ response.kind = "ChatCompletion"
     /\ ~ResponseToolCalls.none
     /\ Len(ResponseToolCalls.items) > 0)
    => /\ model_response.outcome = "returned"
       /\ IF AllValid(ResponseToolCalls.items)
          THEN /\ ~model_response.value.tool_calls.none
               /\ Len(model_response.value.tool_calls.items) = Len(ResponseToolCalls.items)
               /\ \A k \in 1..Len(ResponseToolCalls.items) :
                     model_response.value.tool_calls.items[k]
                        = model_dump(ResponseToolCalls.items[k])
          ELSE model_response.value.tool_calls = NoList

\* Two tool calls, the second malformed: nothing is set.
C6_Witness ==
    /\ Parsed
    /\ response.kind = "ChatCompletion"
    /\ ~ResponseToolCalls.none
    /\ Len(ResponseToolCalls.items) = 2
    /\ ResponseToolCalls.items[1].valid
    /\ ~ResponseToolCalls.items[2].valid
    /\ model_response.value.tool_calls = NoList

\* The usage the provider sent with the response, complete or chunk.
ProviderUsage ==
    IF response.kind = "ChatCompletion" THEN response.usage
    ELSE IF response.x_groq.none THEN NoUsage ELSE response.x_groq.usage

\* C7 as stated: input and output tokens are the provider's prompt and
\* completion tokens, and total_tokens is the provider's total when there is
\* one and their sum when there is none.
C7_TotalIsProviderTotalOrSum ==
    (Parsed /\ ~ProviderUsage.none)
    => LET u == model_response.value.response_usage
       IN  /\ model_response.value.usage_set
           /\ u.input_tokens = ProviderUsage.prompt_tokens
           /\ u.output_tokens = ProviderUsage.completion_tokens
           /\ u.total_tokens =
                 IF ProviderUsage.total_tokens.none
                 THEN Int_(ProviderUsage.prompt_tokens + ProviderUsage.completion_tokens)
                 ELSE ProviderUsage.total_tokens

\* C7 amended: input and output tokens are the provider's prompt and
\* completion tokens, and total_tokens is the provider's total_tokens field as
\* it was sent: the provider's total when there is one, None when there is
\* none; no sum is computed.
C7_TotalIsProviderField ==
    (Parsed /\ ~ProviderUsage.none)
    => LET u == model_response.value.response_usage
       IN  /\ model_response.value.usage_set
           /\ u.input_tokens = ProviderUsage.prompt_tokens
           /\ u.output_tokens = ProviderUsage.completion_tokens
           /\ u.total_tokens = ProviderUsage.total_tokens
           /\ ProviderUsage.total_tokens.none => u.total_tokens = NoInt

\* A parsed stream chunk whose usage has prompt 10, completion 5 and no total.
C7_Witness ==
    /\ Parsed
    /\ response.kind = "ChatCompletionChunk"
    /\ ~ProviderUsage.none
    /\ ProviderUsage.prompt_tokens = 10
    /\ ProviderUsage.completion_tokens = 5
    /\ ProviderUsage.total_tokens.none
    /\ model_response.value.response_usage.total_tokens.none

TranscribeOps == {"transcribe_audio", "atranscribe_audio"}

\* The audio the call uses has no bytes, no URL content, and a file path that
\* does not exist.
OnlyMissingFile(audio_data) ==
    /\ audio_data.kind \in {"Audio", "list"}
    /\ Len(audio_data.items) > 0
    /\ LET audio == audio_data.items[1]
       IN  /\ audio.content = None
           /\ audio.url = None
           /\ audio.audio_url_content = None
           /\ audio.filepath # None
           /\ ~PathExists(audio.filepath)

FailsBeforeAnyClient ==
    /\ last.call.outcome = "raised"
    /\ last.call.clients = <<>>
    /\ last.call.requests = <<>>

\* C8 as stated: transcribing an Audio whose only source is a file path that
\* does not exist fails with a file-not-found error, before a client is
\* obtained or a request is sent.
C8_MissingFileIsFileNotFound ==
    (last.op \in TranscribeOps /\ OnlyMissingFile(last.args.audio_data))
    => /\ FailsBeforeAnyClient
       /\ last.call.error.type = "FileNotFoundError"

\* C8 amended: transcribing an Audio whose only source is a file path that
\* does not exist fails with ValueError("Failed to process audio data"), the
\* same error as for any audio that cannot be processed, before a client is
\* obtained or a request is sent.
C8_MissingFileIsValueError ==
    (last.op \in TranscribeOps /\ OnlyMissingFile(last.args.audio_data))
    => /\ FailsBeforeAnyClient
       /\ last.call.error = Exc("ValueError", "Failed to process audio data")

\* atranscribe_audio of a list whose first Audio is the missing file.
C8_Witness ==
    /\ last.op = "atranscribe_audio"
    /\ last.args.audio_data.kind = "list"
    /\ OnlyMissingFile(last.args.audio_data)
    /\ last.call.outcome = "raised"
    /\ adapter.async_made = 0

ClientsOfKind(kind) == { c \in clients_returned : c[1] = kind }

\* C9: at most one synchronous and at most one asynchronous client are ever
\* constructed, and all get_client calls return one object, as do all
\* get_async_client calls.
C9_OneClientOfEachKind ==
    /\ adapter.sync_made <= 1
    /\ adapter.async_made <= 1
    /\ Cardinality(ClientsOfKind("sync")) <= 1
    /\ Cardinality(ClientsOfKind("async")) <= 1

FormattingOps == {"format_message", "invoke", "ainvoke", "invoke_stream", "anext(ainvoke_stream)"}

\* C10: format_message, alone or called by an invocation, leaves every field
\* of the caller's Message as it was before the call.
C10_MessageUnchanged ==
    last.op \in FormattingOps => message = last.before

\* The first non-null value of a field (id or type) among the fragments, or
\* None when no fragment supplies one.
RECURSIVE FirstSupplied(_, _)
FirstSupplied(data, field) ==
    IF data = <<>> THEN None
    ELSE IF Truthy(Head(data)[field]) THEN Head(data)[field]
    ELSE FirstSupplied(Tail(data), field)

\* C11 as stated, for fragments that all carry one index: once a fragment has
\* supplied a non-null id (type), the entry's id (type) is that first supplied
\* value after every later fragment, whether the later fragment carries a null
\* value or a different non-null one.
C11_IdAndTypeSetOnce ==
    \A i \in 0..MaxIndex :
        AllSameIndex(i) =>
            /\ Truthy(FirstSupplied(tool_calls_data, "id"))
                  => Entry(i).id = FirstSupplied(tool_calls_data, "id")
            /\ Truthy(FirstSupplied(tool_calls_data, "type"))
                  => Entry(i).type = FirstSupplied(tool_calls_data, "type")

\* The entry at position i exists and has been given content.
HasContent(i) == Len(tool_calls) > i /\ DOMAIN Entry(i) # {}

\* C11 amended: merging a fragment of index i into an entry that already has
\* content replaces the entry's id (type) when the fragment carries a non-null
\* id (type), even one that differs from the value the entry had, and leaves
\* it as it was when the fragment carries a null one: the entry holds the
\* last non-null value supplied, not the first.
C11_LastSuppliedIdAndTypeWin ==
    [][LET f == tool_calls_data'[Len(tool_calls_data')]
       IN  (tool_calls_data' = Append(tool_calls_data, f) /\ HasContent(f.index))
           => /\ heap'[tool_calls'[f.index + 1]].id
                    = IF Truthy(f.id) THEN f.id ELSE Entry(f.index).id
              /\ heap'[tool_calls'[f.index + 1]].type
                    = IF Truthy(f.type) THEN f.type ELSE Entry(f.index).type]_vars

\* Two fragments of index 0, the first with id "call_1" and the second with
\* id "call_2" and no type: the entry ends with id "call_2" and keeps its type.
C11_Witness ==
    /\ AllSameIndex(0)
    /\ Len(tool_calls_data) = 2
    /\ tool_calls_data[1].id = "call_1"
    /\ tool_calls_data[1].type = "function"
    /\ tool_calls_data[2].id = "call_2"
    /\ tool_calls_data[2].type = None
    /\ Entry(0).id = "call_2"
    /\ Entry(0).type = "function"

HasAudio(m) == ~m.audio.none /\ Len(m.audio.items) > 0

\* The transcription made for message m fails: its audio cannot be processed,
\* or the provider answers the request with the error net.
TranscriptionFails(m, net) ==
    \/ ResolveAudio(AudioList(m.audio.items), None).error # NoError
    \/ net # NoError

\* The content of a returned mapping; a mapping without the key has none.
ContentOf(message_dict) ==
    IF "content" \in DOMAIN message_dict THEN message_dict["content"] ELSE NoContent

\* The mapping format_message returns for m with its audio attachment removed.
FormattedWithoutAudio(m) ==
    format_message(last.call.self, response_format, [m EXCEPT !.audio = NoList], NoError).call.value

OtherVariant(variant) == IF variant = "sync" THEN "async" ELSE "sync"

\* What a transcription request tells the provider to do: the client object
\* that carries it is left out.
RequestSent(request) ==
    [file |-> request.file, model |-> request.model, params |-> request.params]

\* The requests the other variant sends for the arguments of the last call.
OtherVariantRequests ==
    transcribe_audio(adapter, OtherVariant(last.args.variant), last.args.audio_data,
                     last.args.file_format, last.args.options, last.args.response_format,
                     "whisper-large-v3-turbo", NoError).requests

\* The file format the call's Audio value offers, if it has one.
AudioFormat(audio_data) ==
    IF audio_data.kind \in {"Audio", "list"} /\ Len(audio_data.items) > 0
    THEN audio_data.items[1].format ELSE None

\* C13: a transcription request, from transcribe_audio and from
\* atranscribe_audio alike, asks for the response format the caller passed and
\* for plain text when the caller passed none, names the file "audio.mp3" when
\* neither the caller nor the Audio value gives a format, and is the request
\* the other variant sends for the same arguments.
C13_VariantsSendSameRequest ==
    (last.op \in TranscribeOps /\ Len(last.call.requests) = 1)
    => LET request == last.call.requests[1]
       IN  /\ last.args.response_format = NotPassed
                 => DictGet(request.params, "response_format") = "text"
           /\ Truthy(last.args.response_format) /\ last.args.response_format # NotPassed
                 => DictGet(request.params, "response_format") = last.args.response_format
           /\ ~Truthy(last.args.file_format) /\ ~Truthy(AudioFormat(last.args.audio_data))
                 => request.file[1] = "audio.mp3"
           /\ Len(OtherVariantRequests) = 1
           /\ RequestSent(OtherVariantRequests[1]) = RequestSent(request)

ToolsAreSet == ~config._tools.none

\* The request-parameter sets the last call built: the one request_kwargs
\* returned, or the ones invoke sent with its requests.
KwargsBuilt ==
    IF last.op = "request_kwargs" THEN { last.call.value }
    ELSE IF last.op = "invoke"
    THEN { last.call.requests[k].kwargs : k \in 1..Len(last.call.requests) }
    ELSE {}

\* C14: no key of the request-parameter set has the value None, whatever the
\* options and the request_params mapping are; "tools" is a key only when
\* tools are set, and "tool_choice" only when tools are set and tool_choice is
\* not None.
C14_NoNullRequestParameter ==
    \A kwargs \in KwargsBuilt :
        /\ \A k \in DOMAIN kwargs : ~kwargs[k].none
        /\ "tools" \in DOMAIN kwargs => ToolsAreSet
        /\ "tool_choice" \in DOMAIN kwargs => ToolsAreSet /\ ~config.tool_choice.none

LargestIndexSeen == CHOOSE m \in IndicesSeen : \A i \in IndicesSeen : i <= m

\* C15: the list has (largest fragment index + 1) entries; every entry at an
\* index that no fragment carried is an empty placeholder; and the entries
\* are independent of each other: no two positions of the list hold the same
\* dict.
C15_PlaceholdersEmptyAndIndependent ==
    tool_calls_data # <<>>
    => /\ Len(tool_calls) = LargestIndexSeen + 1
       /\ \A i \in 0..(Len(tool_calls) - 1) :
             i \notin IndicesSeen => Entry(i) = EmptyDict
       /\ \A i, j \in 1..Len(tool_calls) :
             i # j => tool_calls[i] # tool_calls[j]

\* The mapping the last call built for the caller's message: the one
\* format_message returned, or the one invoke sent with its completion request.
MappingTransmitted ==
    IF last.op = "format_message" THEN last.call.value
    ELSE last.call.requests[Len(last.call.requests)].messages[1]

\* The mapping built when the caller passes the same Message once more, the
\* adapter's configuration unchanged and the transcription request, if one is
\* made, meeting the same outcome.
MappingOnNextCall ==
    format_message(adapter, response_format, message, last.args.net).call.value

\* C16: after format_message or invoke on a Message, the same call on the same
\* Message builds the same mapping for it again; in particular the content
\* carries the JSON directive the same number of times on both calls.
C16_RepeatedFormattingSameMapping ==
    last.op \in {"format_message", "invoke"}
    => /\ MappingOnNextCall = MappingTransmitted
       /\ DirectiveCount(ContentOf(MappingOnNextCall).text)
             = DirectiveCount(ContentOf(MappingTransmitted).text)

=============================================================================
